---- MODULE Spec2Model ----
(***************************************************************************)
(* aegis-audit: the exploit-confirmation stage (src/ai/agent2.py) and the  *)
(* remediation stage (src/ai/agent3.py) as one state machine.              *)
(*                                                                         *)
(* Representation.                                                         *)
(*  - A Python str that the code inspects (check, title, impact, severity, *)
(*    confidence, the severity labels) is a sequence of one-character      *)
(*    strings, so that str.lower() and the `in` substring test are         *)
(*    computed character by character.                                     *)
(*  - A Python dict is a function whose DOMAIN is its key set; a missing   *)
(*    key is a key outside the DOMAIN.                                     *)
(*  - A score is an integer number of thousandths (0.75 is 750); the       *)
(*    arithmetic of the code is carried out exactly in that unit.  The     *)
(*    code computes in binary floating point, which differs from the exact *)
(*    value in the last place only: (0.5 + 0.1 + 0.7) / 2 is               *)
(*    0.6499999999999999 there.  No comparison with 0.5, 0.7 or 0.8 is     *)
(*    affected; int(score * 20) is, and is 12 instead of 13 for that one   *)
(*    score.                                                               *)
(*  - Static prose (test_code, remediation_steps, secure_code_example,     *)
(*    prevention_measures, recommendations, checklist), the contract path, *)
(*    run id and timestamp carry no logic and are left out of the records. *)
(***************************************************************************)
EXTENDS Integers, Sequences, FiniteSets, TLC

\* ------------------------------------------------------------------------
\* String literals of the source, and sample input strings
\* ------------------------------------------------------------------------
S_reentrancy == <<"r", "e", "e", "n", "t", "r", "a", "n", "c", "y">>
S_unchecked_call == <<"u", "n", "c", "h", "e", "c", "k", "e", "d", "-", "c", "a", "l", "l">>
S_low_level_calls == <<"l", "o", "w", "-", "l", "e", "v", "e", "l", "-", "c", "a", "l", "l", "s">>
S_timestamp == <<"t", "i", "m", "e", "s", "t", "a", "m", "p">>
S_block_timestamp == <<"b", "l", "o", "c", "k", "-", "t", "i", "m", "e", "s", "t", "a", "m", "p">>
S_integer == <<"i", "n", "t", "e", "g", "e", "r">>
S_overflow == <<"o", "v", "e", "r", "f", "l", "o", "w">>
S_underflow == <<"u", "n", "d", "e", "r", "f", "l", "o", "w">>
S_external_call == <<"e", "x", "t", "e", "r", "n", "a", "l", "-", "c", "a", "l", "l">>
S_unchecked == <<"u", "n", "c", "h", "e", "c", "k", "e", "d">>
S_time == <<"t", "i", "m", "e">>
S_access == <<"a", "c", "c", "e", "s", "s">>
S_owner == <<"o", "w", "n", "e", "r">>
S_modifier == <<"m", "o", "d", "i", "f", "i", "e", "r">>
S_solc_version == <<"s", "o", "l", "c", "-", "v", "e", "r", "s", "i", "o", "n">>
S_pragma == <<"p", "r", "a", "g", "m", "a">>
S_high == <<"h", "i", "g", "h">>
S_critical == <<"c", "r", "i", "t", "i", "c", "a", "l">>
S_medium == <<"m", "e", "d", "i", "u", "m">>
S_low == <<"l", "o", "w">>
S_High == <<"H", "i", "g", "h">>
S_Critical == <<"C", "r", "i", "t", "i", "c", "a", "l">>
S_Medium == <<"M", "e", "d", "i", "u", "m">>
S_Low == <<"L", "o", "w">>
S_Informational == <<"I", "n", "f", "o", "r", "m", "a", "t", "i", "o", "n", "a", "l">>
S_HIGH == <<"H", "I", "G", "H">>
S_Unknown_Mythril_Issue == <<"U", "n", "k", "n", "o", "w", "n", " ", "M", "y", "t", "h", "r", "i", "l", " ", "I", "s", "s", "u", "e">>
S__eth == <<"-", "e", "t", "h">>
S_arbitrary_send == <<"a", "r", "b", "i", "t", "r", "a", "r", "y", "-", "s", "e", "n", "d">>
S_over == <<"o", "v", "e", "r">>
S_flow == <<"f", "l", "o", "w">>
S_Reentrancy == <<"R", "e", "e", "n", "t", "r", "a", "n", "c", "y">>
S_TIME == <<"T", "I", "M", "E">>
S_Timestamp == <<"T", "i", "m", "e", "s", "t", "a", "m", "p">>
S_tx_origin == <<"t", "x", "-", "o", "r", "i", "g", "i", "n">>
S_reentrancy_eth == <<"r", "e", "e", "n", "t", "r", "a", "n", "c", "y", "-", "e", "t", "h">>
S_reentrancy_no_eth == <<"r", "e", "e", "n", "t", "r", "a", "n", "c", "y", "-", "n", "o", "-", "e", "t", "h">>
S_section == <<"=", "=", "=", "=">>
S_section_start == <<"=", "=", "=", "=", " ">>
S_SWC_ID == <<"S", "W", "C", " ", "I", "D", ":">>
S_Severity == <<"S", "e", "v", "e", "r", "i", "t", "y", ":">>
S_rule == <<"-", "-", "-", "-">>
S_107 == <<"1", "0", "7">>
S_in_withdraw == <<"i", "n", " ", "w", "i", "t", "h", "d", "r", "a", "w">>

\* Python's None, as returned by dict.get(key) for a missing key.  It is a
\* sequence (so it compares with strings) that no string equals: its only
\* element is not a single character.
None == <<"None">>

\* ------------------------------------------------------------------------
\* Bounds of the model
\* ------------------------------------------------------------------------
\* Longest upstream (Agent 1) list and longest symbolic-execution issue list
\* of a run whose lists are drawn from ListUpstream / ListIssues, and the
\* longest findings list of a confirmation report that did not come from
\* Agent 2.
MaxUpstream == 3
MaxMythril == 2
MaxForeign == 2
\* Longest text output of the tool, in lines
MaxLines == 3

\* ------------------------------------------------------------------------
\* Python built-ins
\* ------------------------------------------------------------------------
UpperChars == <<"A","B","C","D","E","F","G","H","I","J","K","L","M",
                "N","O","P","Q","R","S","T","U","V","W","X","Y","Z">>
LowerChars == <<"a","b","c","d","e","f","g","h","i","j","k","l","m",
                "n","o","p","q","r","s","t","u","v","w","x","y","z">>

LowerChar(c) ==
    IF \E i \in 1..Len(UpperChars) : UpperChars[i] = c
    THEN LowerChars[CHOOSE i \in 1..Len(UpperChars) : UpperChars[i] = c]
    ELSE c

\* str.lower()
lower(s) == [i \in 1..Len(s) |-> LowerChar(s[i])]

\* kw in s   (substring test on str)
Contains(s, kw) ==
    \E i \in 0..(Len(s) - Len(kw)) : SubSeq(s, i + 1, i + Len(kw)) = kw

\* d.get(k, default)
Get(d, k, default) == IF k \in DOMAIN d THEN d[k] ELSE default

\* {**d, **e}: the keys of both, e's value where both have the key
Update(d, e) ==
    [k \in (DOMAIN d) \cup (DOMAIN e) |-> IF k \in DOMAIN e THEN e[k] ELSE d[k]]

\* min(a, b)
Min(a, b) == IF a <= b THEN a ELSE b

\* All sequences over S of length at most n
SeqUpTo(S, n) == UNION {[1..k -> S] : k \in 0..n}

\* bool(d) of a dict: it has a key
NonEmptyDict(d) == DOMAIN d # {}

\* s.startswith(prefix)
startswith(s, prefix) ==
    Len(s) >= Len(prefix) /\ SubSeq(s, 1, Len(prefix)) = prefix

\* The characters str.strip() removes, as far as the inputs hold them
Whitespace == {" ", "\t", "\r"}

RECURSIVE lstrip(_)
lstrip(s) ==
    IF s # <<>> /\ s[1] \in Whitespace THEN lstrip(Tail(s)) ELSE s

RECURSIVE rstrip(_)
rstrip(s) ==
    IF s # <<>> /\ s[Len(s)] \in Whitespace
    THEN rstrip(SubSeq(s, 1, Len(s) - 1)) ELSE s

\* s.strip()
strip(s) == rstrip(lstrip(s))

\* s.replace(old, ''): every occurrence of old, left to right, is removed
RECURSIVE remove(_, _)
remove(s, old) ==
    IF s = <<>> THEN <<>>
    ELSE IF startswith(s, old) THEN remove(SubSeq(s, Len(old) + 1, Len(s)), old)
    ELSE <<s[1]>> \o remove(Tail(s), old)

\* s.split(sep) for a one-character sep
RECURSIVE split(_, _)
split(s, sep) ==
    IF \A i \in 1..Len(s) : s[i] # sep THEN <<s>>
    ELSE LET k == CHOOSE i \in 1..Len(s) :
                    s[i] = sep /\ \A j \in 1..(i - 1) : s[j] # sep
         IN  <<SubSeq(s, 1, k - 1)>> \o split(SubSeq(s, k + 1, Len(s)), sep)

\* sep.join(parts)
RECURSIVE join(_, _)
join(sep, parts) ==
    IF parts = <<>> THEN <<>>
    ELSE IF Len(parts) = 1 THEN parts[1]
    ELSE parts[1] \o <<sep>> \o join(sep, Tail(parts))

\* ------------------------------------------------------------------------
\* Agent 2: exploit test templates (agent2.py:252-344)
\* ------------------------------------------------------------------------
ReentrancyConfidence == 700
UncheckedCallConfidence == 600
TimestampConfidence == 500
IntegerOverflowConfidence == 800
GenericConfidence == 300

generate_reentrancy_test ==
    [test_generated |-> TRUE, test_executed |-> FALSE, exploit_confirmed |-> FALSE,
     test_output |-> "Reentrancy test template generated",
     confidence_score |-> ReentrancyConfidence]

generate_unchecked_call_test ==
    [test_generated |-> TRUE, test_executed |-> FALSE, exploit_confirmed |-> FALSE,
     test_output |-> "Unchecked call vulnerability detected - manual verification recommended",
     confidence_score |-> UncheckedCallConfidence]

generate_timestamp_test ==
    [test_generated |-> TRUE, test_executed |-> FALSE, exploit_confirmed |-> FALSE,
     test_output |-> "Timestamp dependency detected - block.timestamp manipulation possible",
     confidence_score |-> TimestampConfidence]

generate_integer_overflow_test ==
    [test_generated |-> TRUE, test_executed |-> FALSE, exploit_confirmed |-> FALSE,
     test_output |-> "Integer overflow/underflow vulnerability detected",
     confidence_score |-> IntegerOverflowConfidence]

\* test_output interpolates finding.get('check', 'unknown'); the interpolated
\* text is not kept.
generate_generic_test ==
    [test_generated |-> TRUE, test_executed |-> FALSE, exploit_confirmed |-> FALSE,
     test_output |-> "Generic vulnerability test for: {check}",
     confidence_score |-> GenericConfidence]

\* Fault variant of generate_exploit_test: the integer/overflow keywords are
\* tested before the timestamp keywords.
generate_exploit_test_integer_first(finding) ==
    LET vuln_type == lower(Get(finding, "check", Get(finding, "title", <<>>)))
    IN  IF Contains(vuln_type, S_reentrancy)
        THEN generate_reentrancy_test
        ELSE IF Contains(vuln_type, S_unchecked_call) \/ Contains(vuln_type, S_low_level_calls)
        THEN generate_unchecked_call_test
        ELSE IF Contains(vuln_type, S_integer) \/ Contains(vuln_type, S_overflow)
                \/ Contains(vuln_type, S_underflow)
        THEN generate_integer_overflow_test
        ELSE IF Contains(vuln_type, S_timestamp) \/ Contains(vuln_type, S_block_timestamp)
        THEN generate_timestamp_test
        ELSE generate_generic_test

\* agent2.py:215-250
generate_exploit_test(finding) ==
    LET vuln_type == lower(Get(finding, "check", Get(finding, "title", <<>>)))
    IN  IF Contains(vuln_type, S_reentrancy)
        THEN generate_reentrancy_test
        ELSE IF Contains(vuln_type, S_unchecked_call) \/ Contains(vuln_type, S_low_level_calls)
        THEN generate_unchecked_call_test
        ELSE IF Contains(vuln_type, S_timestamp) \/ Contains(vuln_type, S_block_timestamp)
        THEN generate_timestamp_test
        ELSE IF Contains(vuln_type, S_integer) \/ Contains(vuln_type, S_overflow)
                \/ Contains(vuln_type, S_underflow)
        THEN generate_integer_overflow_test
        ELSE generate_generic_test

\* ------------------------------------------------------------------------
\* Agent 2: score (agent2.py:346-364), in thousandths
\* ------------------------------------------------------------------------
BaseScore == 500
HighSeverityBonus == 300
MediumSeverityBonus == 100
ScoreCap == 1000

\* Fault variant of calculate_final_score: the test confidence is subtracted
\* instead of added.
calculate_final_score_subtract(finding, exploit_result) ==
    LET severity == lower(Get(finding, "impact", Get(finding, "severity", S_Medium)))
        base_score == BaseScore +
            (IF severity \in {S_high, S_critical} THEN HighSeverityBonus
             ELSE IF severity \in {S_medium} THEN MediumSeverityBonus
             ELSE 0)
        confidence == Get(exploit_result, "confidence_score", 0)
        averaged == (base_score - confidence) \div 2
    IN  Min(averaged, ScoreCap)

\* Fault variant of calculate_final_score: a finding without impact and
\* without severity gets no severity bonus (default '' instead of 'Medium').
calculate_final_score_no_default(finding, exploit_result) ==
    LET severity == lower(Get(finding, "impact", Get(finding, "severity", <<>>)))
        base_score == BaseScore +
            (IF severity \in {S_high, S_critical} THEN HighSeverityBonus
             ELSE IF severity \in {S_medium} THEN MediumSeverityBonus
             ELSE 0)
        confidence == Get(exploit_result, "confidence_score", 0)
        averaged == (base_score + confidence) \div 2
    IN  Min(averaged, ScoreCap)

\* Fault variant of calculate_final_score: the base score and the confidence
\* are added and not averaged.
calculate_final_score_not_averaged(finding, exploit_result) ==
    LET severity == lower(Get(finding, "impact", Get(finding, "severity", S_medium)))
        base_score == BaseScore +
            (IF severity = S_high \/ severity = S_critical THEN HighSeverityBonus
             ELSE IF severity = S_medium THEN MediumSeverityBonus
             ELSE 0)
        confidence == Get(exploit_result, "confidence_score", 0)
    IN  Min(base_score + confidence, ScoreCap)

calculate_final_score(finding, exploit_result) ==
    LET severity == lower(Get(finding, "impact", Get(finding, "severity", S_Medium)))
        base_score == BaseScore +
            (IF severity \in {S_high, S_critical} THEN HighSeverityBonus
             ELSE IF severity \in {S_medium} THEN MediumSeverityBonus
             ELSE 0)
        confidence == Get(exploit_result, "confidence_score", 0)
        averaged == (base_score + confidence) \div 2
    IN  Min(averaged, ScoreCap)

\* ------------------------------------------------------------------------
\* Agent 2: symbolic-execution issues to findings (agent2.py:151-166)
\* ------------------------------------------------------------------------
MythrilFinding(issue) ==
    [tool |-> "mythril",
     title |-> Get(issue, "title", S_Unknown_Mythril_Issue),
     description |-> Get(issue, "description", <<>>),
     severity |-> Get(issue, "severity", S_Medium),
     swc_id |-> Get(issue, "swc-id", <<>>),
     lineno |-> Get(issue, "lineno", 1),
     filename |-> Get(issue, "filename", "contract_path"),
     function |-> Get(issue, "function", <<>>),
     address |-> Get(issue, "address", 0),
     debug |-> Get(issue, "debug", <<>>),
     confirmed |-> FALSE,
     exploitability_score |-> 0]

\* The list comprehension of run_mythril_analysis over mythril_data["issues"]
MythrilFindings(issues) == [i \in 1..Len(issues) |-> MythrilFinding(issues[i])]

\* ------------------------------------------------------------------------
\* Agent 2: the text fall-back for the tool's output (agent2.py:178-213)
\* ------------------------------------------------------------------------
\* The body of the loop over the lines: state is the pair of the locals
\* findings and current_issue, raw is the line before line.strip()
parse_mythril_text_line(state, raw) ==
    LET line == strip(raw)
        current_issue == state.current_issue
    IN  IF startswith(line, S_section_start)
        THEN [findings |-> IF NonEmptyDict(current_issue)
                         THEN Append(state.findings, current_issue)
                         ELSE state.findings,
              current_issue |->
                 [tool |-> "mythril",
                  title |-> strip(remove(line, S_section)),
                  description |-> <<>>,
                  severity |-> S_Medium,
                  lineno |-> 1,
                  filename |-> "contract_path",
                  confirmed |-> FALSE,
                  exploitability_score |-> 0]]
        ELSE IF startswith(line, S_SWC_ID) /\ NonEmptyDict(current_issue)
        THEN [state EXCEPT !.current_issue =
                 Update(current_issue, [swc_id |-> strip(remove(line, S_SWC_ID))])]
        ELSE IF startswith(line, S_Severity) /\ NonEmptyDict(current_issue)
        THEN [state EXCEPT !.current_issue =
                 Update(current_issue, [severity |-> strip(remove(line, S_Severity))])]
        ELSE IF line # <<>> /\ NonEmptyDict(current_issue)
                /\ ~startswith(line, S_rule)
        THEN [state EXCEPT !.current_issue =
                 Update(current_issue,
                        [description |-> current_issue.description \o line \o <<" ">>])]
        ELSE state

RECURSIVE parse_mythril_text_lines(_, _)
parse_mythril_text_lines(state, lines) ==
    IF lines = <<>> THEN state
    ELSE parse_mythril_text_lines(parse_mythril_text_line(state, Head(lines)),
                                  Tail(lines))

\* Fault variant of parse_mythril_text_output: the issue still open at the
\* end of the text is not added.
parse_mythril_text_output_drops_last(output) ==
    parse_mythril_text_lines([findings |-> <<>>, current_issue |-> <<>>],
                             split(output, "\n")).findings

parse_mythril_text_output(output) ==
    LET final == parse_mythril_text_lines(
                    [findings |-> <<>>, current_issue |-> <<>>],
                    split(output, "\n"))
    IN  IF NonEmptyDict(final.current_issue)
        THEN Append(final.findings, final.current_issue)
        ELSE final.findings

\* ------------------------------------------------------------------------
\* Agent 2: the tool run (agent2.py:87-122 and 124-176)
\* ------------------------------------------------------------------------
\* What the tool printed.  shape is what json.loads makes of it:
\*   "not_json"      json.loads raises JSONDecodeError; text is the output
\*   "issues"        an object whose "issues" is a list of objects
\*   "no_issues"     an object without the key "issues"
\*   "array"         a list
\*   "scalar"        a number, true, false or null
\*   "issues_null"   an object whose "issues" is null
\*   "issue_scalar"  an object whose "issues" is a list holding a number
NoOutput == [shape |-> "not_json", text |-> <<>>]

\* bool(result["stdout"])
NonEmptyOutput(stdout) == ~(stdout.shape = "not_json" /\ stdout.text = <<>>)

\* run_command: the process ended with a return code, or ran into the
\* timeout, or subprocess.run raised another exception
run_command(run) ==
    IF run.outcome = "exited"
    THEN [stdout |-> run.stdout, success |-> (run.returncode = 0),
          returncode |-> run.returncode]
    ELSE [stdout |-> NoOutput, success |-> FALSE, returncode |-> -1]

\* run_mythril_analysis: the findings it returns, or raised when an exception
\* other than json.JSONDecodeError leaves it ("issues" in a scalar, the
\* iteration of null and issue.get on a number raise TypeError or
\* AttributeError).  issues is mythril_data["issues"] of shape "issues".
run_mythril_analysis(run, issues) ==
    LET result == run_command(run)
        shape == result.stdout.shape
    IN  IF result.success /\ NonEmptyOutput(result.stdout)
        THEN IF shape = "not_json"
             THEN [raised |-> FALSE,
                   findings |-> parse_mythril_text_output(result.stdout.text)]
             ELSE IF shape = "issues"
             THEN [raised |-> FALSE, findings |-> MythrilFindings(issues)]
             ELSE IF shape \in {"no_issues", "array"}
             THEN [raised |-> FALSE, findings |-> <<>>]
             ELSE [raised |-> TRUE, findings |-> <<>>]
        ELSE [raised |-> FALSE, findings |-> <<>>]

\* ------------------------------------------------------------------------
\* Agent 2: one processed finding (agent2.py:398-406 and 412-420)
\* ------------------------------------------------------------------------
\* Fault variant of EnhancedFinding: the finding's own keys are spread last,
\* so a key the finding carries overrides the computed one.
EnhancedFindingSpreadLast(finding, source) ==
    LET exploit_result == generate_exploit_test(finding)
    IN  Update([source |-> source,
                exploit_test |-> exploit_result,
                final_exploitability_score |-> calculate_final_score(finding, exploit_result),
                confirmed |-> Get(exploit_result, "exploit_confirmed", FALSE)],
               finding)

EnhancedFinding(finding, source) ==
    LET exploit_result == generate_exploit_test(finding)
    IN  Update(finding,
               [source |-> source,
                exploit_test |-> exploit_result,
                final_exploitability_score |-> calculate_final_score(finding, exploit_result),
                confirmed |-> Get(exploit_result, "exploit_confirmed", FALSE)])

\* The loop body raises AttributeError when the text or the severity it
\* lowers is JSON null instead of a string (agent2.py:219 and 350)
EnhancedFindingRaises(finding) ==
    \/ Get(finding, "check", Get(finding, "title", <<>>)) = None
    \/ Get(finding, "impact", Get(finding, "severity", S_medium)) = None

\* len([f for f in fs if ...]) is the number of positions that pass the test
ScoreOf(f) == Get(f, "final_exploitability_score", 0)
IsConfirmed(f) == Get(f, "confirmed", FALSE)
\* Fault variants: a score of exactly 0.7 counts as high confidence; a score
\* of exactly 0.8 is in no bucket.
IsHighConfidenceFrom(f) == ScoreOf(f) >= 700
IsMediumScoreBelow(f) == 500 < ScoreOf(f) /\ ScoreOf(f) < 800
IsHighConfidence(f) == ScoreOf(f) > 700
IsCriticalScore(f) == ScoreOf(f) > 800
IsMediumScore(f) == 500 < ScoreOf(f) /\ ScoreOf(f) <= 800
IsLowScore(f) == ScoreOf(f) <= 500

\* The first occurrence of every element of s, in order
RECURSIVE Deduplicated(_)
Deduplicated(s) ==
    IF s = <<>> THEN <<>>
    ELSE LET front == Deduplicated(SubSeq(s, 1, Len(s) - 1))
             last == s[Len(s)]
         IN  IF \E i \in 1..Len(front) : front[i] = last THEN front
             ELSE Append(front, last)

\* Fault variant of FinalReport: findings that are equal are reported once.
FinalReportDeduplicated(a1, myth, all) ==
    [agent1_findings_count |-> Len(a1),
     mythril_findings_count |-> Len(myth),
     total_findings |-> Len(Deduplicated(all)),
     confirmed_exploits |-> Cardinality({i \in 1..Len(all) : IsConfirmed(all[i])}),
     high_confidence_findings |-> Cardinality({i \in 1..Len(all) : IsHighConfidence(all[i])}),
     findings |-> Deduplicated(all),
     summary |-> [critical_vulnerabilities |-> Cardinality({i \in 1..Len(all) : IsCriticalScore(all[i])}),
                  medium_vulnerabilities |-> Cardinality({i \in 1..Len(all) : IsMediumScore(all[i])}),
                  low_vulnerabilities |-> Cardinality({i \in 1..Len(all) : IsLowScore(all[i])})]]

\* agent2.py:423-442
FinalReport(a1, myth, all) ==
    [agent1_findings_count |-> Len(a1),
     mythril_findings_count |-> Len(myth),
     total_findings |-> Len(all),
     confirmed_exploits |-> Cardinality({i \in 1..Len(all) : IsConfirmed(all[i])}),
     high_confidence_findings |-> Cardinality({i \in 1..Len(all) : IsHighConfidence(all[i])}),
     findings |-> all,
     summary |-> [critical_vulnerabilities |-> Cardinality({i \in 1..Len(all) : IsCriticalScore(all[i])}),
                  medium_vulnerabilities |-> Cardinality({i \in 1..Len(all) : IsMediumScore(all[i])}),
                  low_vulnerabilities |-> Cardinality({i \in 1..Len(all) : IsLowScore(all[i])})]]

\* ------------------------------------------------------------------------
\* Agent 3: remediation templates (agent3.py:84-360)
\* ------------------------------------------------------------------------
generate_reentrancy_fix(finding) ==
    [vulnerability_type |-> "reentrancy", severity |-> S_Critical]

generate_unchecked_call_fix(finding) ==
    [vulnerability_type |-> "unchecked_external_call", severity |-> S_High]

generate_integer_overflow_fix(finding) ==
    [vulnerability_type |-> "integer_overflow", severity |-> S_High]

generate_timestamp_dependency_fix(finding) ==
    [vulnerability_type |-> "timestamp_dependency", severity |-> S_Medium]

generate_access_control_fix(finding) ==
    [vulnerability_type |-> "access_control", severity |-> S_Critical]

generate_solc_version_fix(finding) ==
    [vulnerability_type |-> "solc_version", severity |-> S_Low]

generate_generic_fix(finding) ==
    [vulnerability_type |-> "generic", severity |-> Get(finding, "impact", S_Medium)]

\* Fault variant of generate_remediation: the timestamp/time keywords are
\* tested before the overflow/underflow keywords.
generate_remediation_timestamp_first(finding) ==
    LET check_type == lower(Get(finding, "check", <<>>))
    IN  IF Contains(check_type, S_reentrancy)
        THEN generate_reentrancy_fix(finding)
        ELSE IF Contains(check_type, S_external_call) \/ Contains(check_type, S_unchecked)
        THEN generate_unchecked_call_fix(finding)
        ELSE IF Contains(check_type, S_timestamp) \/ Contains(check_type, S_time)
        THEN generate_timestamp_dependency_fix(finding)
        ELSE IF Contains(check_type, S_overflow) \/ Contains(check_type, S_underflow)
        THEN generate_integer_overflow_fix(finding)
        ELSE IF Contains(check_type, S_access) \/ Contains(check_type, S_owner)
                \/ Contains(check_type, S_modifier)
        THEN generate_access_control_fix(finding)
        ELSE IF Contains(check_type, S_solc_version) \/ Contains(check_type, S_pragma)
        THEN generate_solc_version_fix(finding)
        ELSE generate_generic_fix(finding)

\* agent3.py:362-379
generate_remediation(finding) ==
    LET check_type == lower(Get(finding, "check", <<>>))
    IN  IF Contains(check_type, S_reentrancy)
        THEN generate_reentrancy_fix(finding)
        ELSE IF Contains(check_type, S_external_call) \/ Contains(check_type, S_unchecked)
        THEN generate_unchecked_call_fix(finding)
        ELSE IF Contains(check_type, S_overflow) \/ Contains(check_type, S_underflow)
        THEN generate_integer_overflow_fix(finding)
        ELSE IF Contains(check_type, S_timestamp) \/ Contains(check_type, S_time)
        THEN generate_timestamp_dependency_fix(finding)
        ELSE IF Contains(check_type, S_access) \/ Contains(check_type, S_owner)
                \/ Contains(check_type, S_modifier)
        THEN generate_access_control_fix(finding)
        ELSE IF Contains(check_type, S_solc_version) \/ Contains(check_type, S_pragma)
        THEN generate_solc_version_fix(finding)
        ELSE generate_generic_fix(finding)

\* ------------------------------------------------------------------------
\* Agent 3: priority (agent3.py:381-415)
\* ------------------------------------------------------------------------
CriticalImpactPriority == 100
HighImpactPriority == 80
MediumImpactPriority == 60
LowImpactPriority == 40
UnknownImpactPriority == 20
HighConfidencePriority == 20
MediumConfidencePriority == 10
ExploitabilityWeight == 20
ConfirmedPriority == 50

\* int(x) for x = thousandths / 1000: truncation toward zero
IntOfThousandths(thousandths) ==
    IF thousandths >= 0 THEN thousandths \div 1000 ELSE -((-thousandths) \div 1000)

calculate_remediation_priority(finding) ==
    LET impact == lower(Get(finding, "impact", <<>>))
        confidence == lower(Get(finding, "confidence", <<>>))
        exploitability_score == Get(finding, "final_exploitability_score", 0)
        confirmed == Get(finding, "confirmed", FALSE)
    IN  (IF impact = S_critical THEN CriticalImpactPriority
         ELSE IF impact = S_high THEN HighImpactPriority
         ELSE IF impact = S_medium THEN MediumImpactPriority
         ELSE IF impact = S_low THEN LowImpactPriority
         ELSE UnknownImpactPriority)
        + (IF confidence = S_high THEN HighConfidencePriority
           ELSE IF confidence = S_medium THEN MediumConfidencePriority
           ELSE 0)
        + IntOfThousandths(exploitability_score * ExploitabilityWeight)
        + (IF confirmed THEN ConfirmedPriority ELSE 0)

\* ------------------------------------------------------------------------
\* Agent 3: one remediation record (agent3.py:447-456)
\* ------------------------------------------------------------------------
Remediation(finding) ==
    Update(generate_remediation(finding),
           [finding_id |-> Get(finding, "id", "unknown"),
            priority |-> calculate_remediation_priority(finding),
            original_finding |->
                [check |-> Get(finding, "check", None),
                 impact |-> Get(finding, "impact", None),
                 confidence |-> Get(finding, "confidence", None),
                 confirmed |-> Get(finding, "confirmed", FALSE),
                 exploitability_score |-> Get(finding, "final_exploitability_score", 0)]])

\* The loop body raises AttributeError when check, impact or confidence is
\* JSON null instead of a string (agent3.py:364, 386 and 387)
RemediationRaises(finding) ==
    \/ Get(finding, "check", <<>>) = None
    \/ Get(finding, "impact", <<>>) = None
    \/ Get(finding, "confidence", <<>>) = None

\* The error object of the handler (agent3.py:513-519)
ErrorReport == [error |-> TRUE, message |-> "Agent 3 failed"]

\* ------------------------------------------------------------------------
\* Agent 3: remediations.sort(key=priority, reverse=True) (agent3.py:461)
\* list.sort is stable, and with reverse=True it still keeps elements of
\* equal key in their original order.  Computed by stable insertion.
\* ------------------------------------------------------------------------
InsertAt(s, k, r) == SubSeq(s, 1, k) \o <<r>> \o SubSeq(s, k + 1, Len(s))

\* r goes behind every element whose priority is at least its own
InsertByPriority(s, r) ==
    InsertAt(s, Cardinality({i \in 1..Len(s) : s[i].priority >= r.priority}), r)

RECURSIVE SortFrom(_, _)
SortFrom(sorted, rest) ==
    IF rest = <<>> THEN sorted
    ELSE SortFrom(InsertByPriority(sorted, Head(rest)), Tail(rest))

\* Fault variant of the sort: ascending stable sort, then reversed, which
\* reverses the records of equal priority.
InsertByPriorityBeforeEqual(s, r) ==
    InsertAt(s, Cardinality({i \in 1..Len(s) : s[i].priority > r.priority}), r)

RECURSIVE SortFromBeforeEqual(_, _)
SortFromBeforeEqual(sorted, rest) ==
    IF rest = <<>> THEN sorted
    ELSE SortFromBeforeEqual(InsertByPriorityBeforeEqual(sorted, Head(rest)), Tail(rest))

sort_ascending_then_reversed(remediations) == SortFromBeforeEqual(<<>>, remediations)

sort_by_priority_reverse(remediations) == SortFrom(<<>>, remediations)

\* Fault variant of HasSeverity: the labels are compared without case.
HasSeverityAnyCase(r, label) == lower(r.severity) = lower(label)
HasSeverity(r, label) == r.severity = label
IsCriticalRemediation(r) == HasSeverity(r, S_Critical)
IsHighRemediation(r) == HasSeverity(r, S_High)
IsMediumRemediation(r) == HasSeverity(r, S_Medium)
IsLowRemediation(r) == HasSeverity(r, S_Low)

\* agent3.py:463-483
RemediationReport(fs, sorted) ==
    [total_findings |-> Len(fs),
     total_remediations |-> Len(sorted),
     remediation_summary |->
         [critical_remediations |-> Cardinality({i \in 1..Len(sorted) : IsCriticalRemediation(sorted[i])}),
          high_remediations |-> Cardinality({i \in 1..Len(sorted) : IsHighRemediation(sorted[i])}),
          medium_remediations |-> Cardinality({i \in 1..Len(sorted) : IsMediumRemediation(sorted[i])}),
          low_remediations |-> Cardinality({i \in 1..Len(sorted) : IsLowRemediation(sorted[i])})],
     remediations |-> sorted]

\* ------------------------------------------------------------------------
\* Inputs
\* ------------------------------------------------------------------------
\* Every keyword of either classifier, fragments that form a keyword only
\* when joined ("over" + "flow"), mixed-case spellings and texts with no
\* keyword.  A probe text is two fragments joined.
TextFragments ==
    {<<>>, S_reentrancy, S_unchecked_call, S_low_level_calls, S_timestamp,
     S_block_timestamp, S_integer, S_overflow, S_underflow, S_external_call,
     S_unchecked, S_time, S_access, S_owner, S_modifier, S_solc_version,
     S_pragma, S__eth, S_arbitrary_send, S_over, S_flow, S_Reentrancy, S_TIME,
     S_Timestamp, S_tx_origin}

ProbeTexts == {a \o b : a, b \in TextFragments}

\* One text per category of either classifier
CategoryTexts ==
    {S_reentrancy_eth, S_unchecked_call, S_low_level_calls, S_block_timestamp,
     S_integer, S_owner, S_pragma, S_tx_origin}

\* A dict with key k and a value of V, or without the key
Optional(k, V) == {<<>>} \cup {k :> v : v \in V}

\* Upstream (Agent 1) records: fields check, impact, confidence, each of them
\* optional; an upstream record may carry further keys, here confirmed
UpstreamTextProbes ==
    {[check |-> t, impact |-> S_High, confidence |-> S_Medium] : t \in ProbeTexts}

UpstreamFieldProbes ==
    {Update(Update(Update(c, i), k), x) :
        c \in Optional("check", CategoryTexts),
        i \in Optional("impact", {S_Critical, S_high, S_HIGH, S_Medium, S_Low, S_Informational}),
        k \in Optional("confidence", {S_High, S_medium, S_Low}),
        x \in Optional("confirmed", {TRUE})}

UpstreamSchemaProbes ==
    {[check |-> S_reentrancy, severity |-> S_Critical],
     [check |-> S_tx_origin, title |-> S_reentrancy, impact |-> S_Low],
     [title |-> S_timestamp, severity |-> S_low, impact |-> S_High]}

\* Symbolic-execution issues: fields title and severity, each optional
IssueTextProbes == {[title |-> t, severity |-> S_High] : t \in ProbeTexts}

IssueFieldProbes ==
    {Update(t, s) :
        t \in Optional("title", CategoryTexts),
        s \in Optional("severity", {S_High, S_Low, S_critical, S_Informational})}

\* Lists: two upstream findings of equal priority and a third of higher
\* priority; two issues
ListUpstream ==
    {[check |-> S_reentrancy_eth, impact |-> S_High, confidence |-> S_High],
     [check |-> S_reentrancy_no_eth, impact |-> S_High, confidence |-> S_High],
     [check |-> S_tx_origin, impact |-> S_Critical, confidence |-> S_Medium,
      confirmed |-> TRUE]}

ListIssues ==
    {[title |-> S_overflow, severity |-> S_High],
     [title |-> S_timestamp]}

\* The same text and severity once as an upstream record and once as an issue
SchemaPairs ==
    {<<(<<[check |-> t, impact |-> v]>>), <<[title |-> t, severity |-> v]>>>> :
        t \in CategoryTexts, v \in {S_High, S_Low}}

\* What one run of Agent 2 is given: <<upstream report, issues of the tool>>
Agent2Inputs ==
    {<<(<<f>>), <<>>>> : f \in UpstreamTextProbes \cup UpstreamFieldProbes
                                \cup UpstreamSchemaProbes}
    \cup {<<(<<>>), <<i>>>> : i \in IssueTextProbes \cup IssueFieldProbes}
    \cup (SeqUpTo(ListUpstream, MaxUpstream) \X SeqUpTo(ListIssues, MaxMythril))
    \cup SchemaPairs

\* Findings of a confirmation report that Agent 3 is given and that Agent 2
\* of this run did not write: any score in [0, 1], any confirmed flag
ForeignFindings ==
    {[check |-> S_reentrancy_eth, impact |-> S_High, confidence |-> S_Medium,
      final_exploitability_score |-> 680, confirmed |-> TRUE],
     [check |-> S_tx_origin, impact |-> S_low,
      final_exploitability_score |-> 1000, confirmed |-> FALSE],
     [title |-> S_overflow, severity |-> S_High,
      final_exploitability_score |-> 25, confirmed |-> FALSE],
     [check |-> S_owner, impact |-> S_Medium, confidence |-> S_High]}

ForeignReports ==
    {[total_findings |-> 0]}
    \cup {[total_findings |-> Len(fs), findings |-> fs] :
            fs \in SeqUpTo(ForeignFindings, MaxForeign)}

\* Lines of a text output of the tool: two section headers (the second one
\* indented and without a closing marker), the two field lines, a rule, an
\* empty line, a line of prose and a marker followed by nothing
Line_overflow == S_section_start \o S_overflow \o <<" ">> \o S_section
Line_indented_reentrancy == <<" ", " ">> \o S_section_start \o S_Reentrancy
Line_swc == S_SWC_ID \o <<" ">> \o S_107
Line_severity == S_Severity \o <<" ">> \o S_High
Line_rule == S_rule \o <<"-", "-">>
Line_text == S_in_withdraw
Line_bare_section == S_section_start

OutputLines ==
    {Line_overflow, Line_indented_reentrancy, Line_swc, Line_severity,
     Line_rule, <<>>, Line_text, Line_bare_section}

\* Text outputs: at least one line, so the shortest one is the empty output
ToolTexts == {join("\n", ls) : ls \in SeqUpTo(OutputLines, MaxLines) \ {<<>>}}

\* A run of the tool that ends with return code rc and prints stdout
Exited(rc, stdout) == [outcome |-> "exited", returncode |-> rc, stdout |-> stdout]

\* The run the tool makes when it works: return code 0, JSON with "issues"
ExpectedRun == Exited(0, [shape |-> "issues", text |-> <<>>])

\* Runs that time out, cannot be started, end with a non-zero return code,
\* or print JSON of another shape
ToolFaultRuns ==
    {[outcome |-> o, returncode |-> -1, stdout |-> NoOutput] :
        o \in {"timeout", "not_started"}}
    \cup {Exited(1, [shape |-> sh, text |-> <<>>]) : sh \in {"issues", "no_issues"}}
    \cup {Exited(1, NoOutput)}
    \cup {Exited(0, [shape |-> sh, text |-> <<>>]) :
            sh \in {"no_issues", "array", "scalar", "issues_null", "issue_scalar"}}

\* Records with JSON null where the code expects a string
NullCheckFinding == [check |-> None, impact |-> S_High]
NullTitleIssue == [title |-> None]
NullImpactFinding == [check |-> S_reentrancy, impact |-> None,
                      final_exploitability_score |-> 600, confirmed |-> FALSE]

\* Upstream reports of at most one finding
ShortUpstream == {<<>>} \cup {<<f>> : f \in ListUpstream}

\* What a run of Agent 2 is given when something around it goes wrong: the
\* state of the file at agent1_report_path and of the one at contract_path,
\* the upstream report, the run of the tool and the issues it printed
Agent2Input(report_path, contract, report, run, issues) ==
    [agent1_report_path |-> report_path, contract_path |-> contract,
     agent1_report |-> report, mythril_run |-> run, mythril_issues |-> issues]

Agent2FaultInputs ==
    {Agent2Input(rp, "ok", <<>>, ExpectedRun, <<>>) : rp \in {"missing", "malformed"}}
    \cup {Agent2Input("ok", "missing", u, ExpectedRun, <<>>) : u \in ShortUpstream}
    \cup {Agent2Input("ok", "ok", u \o <<NullCheckFinding>>, ExpectedRun, <<>>) :
            u \in ShortUpstream}
    \cup {Agent2Input("ok", "ok", u, ExpectedRun, <<NullTitleIssue>>) :
            u \in ShortUpstream}
    \cup {Agent2Input("ok", "ok", u, run,
                      IF run.stdout.shape = "issues" THEN m ELSE <<>>) :
            u \in ShortUpstream, run \in ToolFaultRuns,
            m \in {<<i>> : i \in ListIssues}}
    \cup {Agent2Input("ok", "ok", u, Exited(rc, [shape |-> "not_json", text |-> t]), <<>>) :
            u \in {<<>>, <<[check |-> S_tx_origin, impact |-> S_Low]>>},
            rc \in {0},
            t \in ToolTexts}

\* No file at agent2_report_path, and a file there that is not JSON
NoFile == [missing |-> TRUE]
MalformedFile == [malformed |-> TRUE]
IsMissing(file) == "missing" \in DOMAIN file
IsMalformed(file) == "malformed" \in DOMAIN file

\* Reports Agent 3 cannot work through
ForeignFaultReports ==
    {NoFile, MalformedFile}
    \cup {[total_findings |-> Len(fs) + 1, findings |-> fs \o <<NullImpactFinding>>] :
            fs \in SeqUpTo(ForeignFindings, 1)}

\* ------------------------------------------------------------------------
\* State
\* ------------------------------------------------------------------------
VARIABLES
    pc2,                \* Agent 2: "off", "start", "read", "process", "done", "failed"
    agent1_report_path, \* the file at agent1_report_path: "ok", "missing", "malformed"
    contract_path,      \* the file at contract_path: "ok", "missing"
    agent1_report,      \* the parsed content of the file at agent1_report_path
    mythril_run,        \* how the run of the symbolic-execution tool ends
    mythril_issues,     \* the "issues" of the symbolic-execution tool's output
    agent1_findings,    \* agent2.main: agent1_findings
    mythril_findings,   \* agent2.main: mythril_findings
    all_findings,       \* agent2.main: all_findings
    stdout2,            \* what Agent 2 has printed to standard output
    exit2,              \* Agent 2's exit status, -1 while it runs
    pc3,                \* Agent 3: "start", "loop", "done", "failed"
    agent2_report_file, \* the parsed content of the file at agent2_report_path
    findings,           \* agent3.main: findings
    remediations,       \* agent3.main: remediations
    stdout3,            \* what Agent 3 has printed to standard output
    exit3               \* Agent 3's exit status, -1 while it runs

\* What Agent 2 is given and does not change
agent2_given == <<agent1_report_path, contract_path, agent1_report,
                  mythril_run, mythril_issues>>

vars == <<pc2, agent2_given, agent1_findings, mythril_findings,
          all_findings, stdout2, exit2, pc3, agent2_report_file, findings,
          remediations, stdout3, exit3>>

agent2_vars == <<pc2, agent2_given, agent1_findings,
                 mythril_findings, all_findings, stdout2, exit2>>
agent3_vars == <<pc3, findings, remediations, stdout3, exit3>>

\* The pipeline is run as it should (Agent 2, then Agent 3 on what Agent 2
\* printed), or Agent 3 alone is run on a report from elsewhere, or Agent 2
\* is run with something around it going wrong.
Init ==
    /\ agent1_findings = <<>>
    /\ mythril_findings = <<>>
    /\ all_findings = <<>>
    /\ stdout2 = <<>>
    /\ exit2 = -1
    /\ pc3 = "start"
    /\ findings = <<>>
    /\ remediations = <<>>
    /\ stdout3 = <<>>
    /\ exit3 = -1
    /\ \/ /\ pc2 = "start"
          /\ agent1_report_path = "ok"
          /\ contract_path = "ok"
          /\ mythril_run = ExpectedRun
          /\ \E in \in Agent2Inputs :
                /\ agent1_report = in[1]
                /\ mythril_issues = in[2]
          /\ agent2_report_file = NoFile
       \/ /\ pc2 = "off"
          /\ agent1_report_path = "ok"
          /\ contract_path = "ok"
          /\ mythril_run = ExpectedRun
          /\ agent1_report = <<>>
          /\ mythril_issues = <<>>
          /\ agent2_report_file \in ForeignReports \cup ForeignFaultReports
       \/ /\ pc2 = "start"
          /\ \E in \in Agent2FaultInputs :
                /\ agent1_report_path = in.agent1_report_path
                /\ contract_path = in.contract_path
                /\ agent1_report = in.agent1_report
                /\ mythril_run = in.mythril_run
                /\ mythril_issues = in.mythril_issues
          /\ agent2_report_file = NoFile

\* ------------------------------------------------------------------------
\* Agent 2: main (agent2.py:366-456)
\* ------------------------------------------------------------------------
\* Each of the three handlers of main logs to standard error and ends the
\* process with status 1 (agent2.py:448-456); nothing is printed
A2Fatal ==
    /\ exit2' = 1
    /\ pc2' = "failed"
    /\ UNCHANGED <<agent2_given, agent1_findings, mythril_findings, all_findings,
                   stdout2, pc3, agent2_report_file, findings, remediations,
                   stdout3, exit3>>

\* 1. json.load of the Agent 1 report (agent2.py:380-381)
A2ReadReport ==
    /\ pc2 = "start"
    /\ agent1_report_path = "ok"
    /\ agent1_findings' = agent1_report
    /\ pc2' = "read"
    /\ UNCHANGED <<agent2_given, mythril_findings, all_findings,
                   stdout2, exit2, pc3, agent2_report_file, findings,
                   remediations, stdout3, exit3>>

\* 1. open raises FileNotFoundError (agent2.py:380, 448-450)
A2ReportNotFound ==
    /\ pc2 = "start"
    /\ agent1_report_path = "missing"
    /\ A2Fatal

\* Fault variant of A2ReportMalformed: a report that is not JSON is taken
\* for the empty list.
A2ReportMalformedAsEmpty ==
    /\ pc2 = "start"
    /\ agent1_report_path = "malformed"
    /\ agent1_findings' = <<>>
    /\ pc2' = "read"
    /\ UNCHANGED <<agent2_given, mythril_findings, all_findings,
                   stdout2, exit2, pc3, agent2_report_file, findings,
                   remediations, stdout3, exit3>>

\* 1. json.load raises json.JSONDecodeError (agent2.py:381, 451-453)
A2ReportMalformed ==
    /\ pc2 = "start"
    /\ agent1_report_path = "malformed"
    /\ A2Fatal

\* 2. open of the contract raises FileNotFoundError (agent2.py:386, 448-450)
A2ContractNotFound ==
    /\ pc2 = "read"
    /\ contract_path = "missing"
    /\ A2Fatal

\* 2. the contract source is read and handed to the templates, which do not
\* look at it; 3. run_mythril_analysis returns (agent2.py:386-390)
A2RunMythril ==
    /\ pc2 = "read"
    /\ contract_path = "ok"
    /\ ~run_mythril_analysis(mythril_run, mythril_issues).raised
    /\ mythril_findings' = run_mythril_analysis(mythril_run, mythril_issues).findings
    /\ pc2' = "process"
    /\ UNCHANGED <<agent2_given, agent1_findings, all_findings,
                   stdout2, exit2, pc3, agent2_report_file, findings,
                   remediations, stdout3, exit3>>

\* 3. run_mythril_analysis raises (agent2.py:390, 454-456)
A2RunMythrilRaises ==
    /\ pc2 = "read"
    /\ contract_path = "ok"
    /\ run_mythril_analysis(mythril_run, mythril_issues).raised
    /\ A2Fatal

\* 4. one pass of the loop over agent1_findings (agent2.py:396-407)
A2ProcessAgent1 ==
    /\ pc2 = "process"
    /\ Len(all_findings) < Len(agent1_findings)
    /\ ~EnhancedFindingRaises(agent1_findings[Len(all_findings) + 1])
    /\ all_findings' = Append(all_findings,
            EnhancedFinding(agent1_findings[Len(all_findings) + 1], "agent1"))
    /\ UNCHANGED <<pc2, agent2_given, agent1_findings,
                   mythril_findings, stdout2, exit2, pc3, agent2_report_file,
                   findings, remediations, stdout3, exit3>>

\* 4. the pass raises (agent2.py:397-398, 454-456)
A2ProcessAgent1Raises ==
    /\ pc2 = "process"
    /\ Len(all_findings) < Len(agent1_findings)
    /\ EnhancedFindingRaises(agent1_findings[Len(all_findings) + 1])
    /\ A2Fatal

\* 4. one pass of the loop over mythril_findings (agent2.py:410-421)
A2ProcessMythril ==
    /\ pc2 = "process"
    /\ Len(all_findings) >= Len(agent1_findings)
    /\ Len(all_findings) < Len(agent1_findings) + Len(mythril_findings)
    /\ ~EnhancedFindingRaises(
            mythril_findings[Len(all_findings) - Len(agent1_findings) + 1])
    /\ all_findings' = Append(all_findings,
            EnhancedFinding(
                mythril_findings[Len(all_findings) - Len(agent1_findings) + 1],
                "mythril"))
    /\ UNCHANGED <<pc2, agent2_given, agent1_findings,
                   mythril_findings, stdout2, exit2, pc3, agent2_report_file,
                   findings, remediations, stdout3, exit3>>

\* 4. the pass raises (agent2.py:411-412, 454-456)
A2ProcessMythrilRaises ==
    /\ pc2 = "process"
    /\ Len(all_findings) >= Len(agent1_findings)
    /\ Len(all_findings) < Len(agent1_findings) + Len(mythril_findings)
    /\ EnhancedFindingRaises(
            mythril_findings[Len(all_findings) - Len(agent1_findings) + 1])
    /\ A2Fatal

\* Fault variant of A2Report: a run without findings ends as a failure.
A2ReportNeedsFindings ==
    /\ pc2 = "process"
    /\ Len(all_findings) = Len(agent1_findings) + Len(mythril_findings)
    /\ IF all_findings = <<>>
       THEN A2Fatal
       ELSE /\ stdout2' = Append(stdout2,
                    FinalReport(agent1_findings, mythril_findings, all_findings))
            /\ agent2_report_file' =
                    FinalReport(agent1_findings, mythril_findings, all_findings)
            /\ exit2' = 0
            /\ pc2' = "done"
            /\ UNCHANGED <<agent2_given, agent1_findings,
                           mythril_findings, all_findings, pc3, findings,
                           remediations, stdout3, exit3>>

\* 5., 6. the report, printed (agent2.py:423-446).  The caller stores what
\* Agent 2 printed at the path it hands to Agent 3; json.dumps followed by
\* json.load gives back the same lists, dicts, strings, booleans and numbers.
A2Report ==
    /\ pc2 = "process"
    /\ Len(all_findings) = Len(agent1_findings) + Len(mythril_findings)
    /\ stdout2' = Append(stdout2,
            FinalReport(agent1_findings, mythril_findings, all_findings))
    /\ agent2_report_file' =
            FinalReport(agent1_findings, mythril_findings, all_findings)
    /\ exit2' = 0
    /\ pc2' = "done"
    /\ UNCHANGED <<agent2_given, agent1_findings,
                   mythril_findings, all_findings, pc3, findings, remediations,
                   stdout3, exit3>>

\* ------------------------------------------------------------------------
\* Agent 3: main (agent3.py:417-522)
\* ------------------------------------------------------------------------
\* The handler of main prints the error object and ends the process with
\* status 1 (agent3.py:512-522)
A3Fatal ==
    /\ stdout3' = Append(stdout3, ErrorReport)
    /\ exit3' = 1
    /\ pc3' = "failed"
    /\ UNCHANGED <<agent2_vars, agent2_report_file, findings, remediations>>

\* json.load of the Agent 2 report, findings = report.get("findings", [])
\* (agent3.py:429-442)
A3LoadReport ==
    /\ pc3 = "start"
    /\ pc2 \in {"off", "done"}
    /\ ~IsMissing(agent2_report_file)
    /\ ~IsMalformed(agent2_report_file)
    /\ findings' = Get(agent2_report_file, "findings", <<>>)
    /\ pc3' = "loop"
    /\ UNCHANGED <<agent2_vars, agent2_report_file, remediations, stdout3, exit3>>

\* open raises FileNotFoundError or json.load raises json.JSONDecodeError
\* (agent3.py:429-430, 512)
A3LoadReportFails ==
    /\ pc3 = "start"
    /\ pc2 \in {"off", "done"}
    /\ IsMissing(agent2_report_file) \/ IsMalformed(agent2_report_file)
    /\ A3Fatal

\* one pass of the loop over findings (agent3.py:444-458)
A3Remediate ==
    /\ pc3 = "loop"
    /\ Len(remediations) < Len(findings)
    /\ ~RemediationRaises(findings[Len(remediations) + 1])
    /\ remediations' = Append(remediations,
                              Remediation(findings[Len(remediations) + 1]))
    /\ UNCHANGED <<agent2_vars, agent2_report_file, pc3, findings, stdout3, exit3>>

\* the pass raises (agent3.py:448-451, 512)
A3RemediateRaises ==
    /\ pc3 = "loop"
    /\ Len(remediations) < Len(findings)
    /\ RemediationRaises(findings[Len(remediations) + 1])
    /\ A3Fatal

\* the sort, the summary and the printed report (agent3.py:461-510)
A3Report ==
    /\ pc3 = "loop"
    /\ Len(remediations) = Len(findings)
    /\ remediations' = sort_by_priority_reverse(remediations)
    /\ stdout3' = Append(stdout3,
            RemediationReport(findings, sort_by_priority_reverse(remediations)))
    /\ exit3' = 0
    /\ pc3' = "done"
    /\ UNCHANGED <<agent2_vars, agent2_report_file, findings>>

Next ==
    \/ A2ReadReport
    \/ A2ReportNotFound
    \/ A2ReportMalformed
    \/ A2ContractNotFound
    \/ A2RunMythril
    \/ A2RunMythrilRaises
    \/ A2ProcessAgent1
    \/ A2ProcessAgent1Raises
    \/ A2ProcessMythril
    \/ A2ProcessMythrilRaises
    \/ A2Report
    \/ A3LoadReport
    \/ A3LoadReportFails
    \/ A3Remediate
    \/ A3RemediateRaises
    \/ A3Report

Spec == Init /\ [][Next]_vars

\* ========================================================================
\* Properties
\* ========================================================================
\* The confirmation report Agent 2 printed, and the remediation report
\* Agent 3 printed
ConfirmationReport == stdout2[1]
PrintedRemediationReport == stdout3[1]

\* Which template generate_exploit_test chose: the Scorer's category
ScorerCategoryOf(exploit_test) ==
    IF exploit_test = generate_reentrancy_test THEN "reentrancy"
    ELSE IF exploit_test = generate_unchecked_call_test THEN "unchecked_external_call"
    ELSE IF exploit_test = generate_timestamp_test THEN "timestamp_dependency"
    ELSE IF exploit_test = generate_integer_overflow_test THEN "integer_overflow"
    ELSE "generic"

\* The text of a finding that the Scorer classifies: its check, or its title
\* when it has no check, or the empty text
ScorerText(f) ==
    IF "check" \in DOMAIN f THEN f.check
    ELSE IF "title" \in DOMAIN f THEN f.title
    ELSE <<>>

\* The text of a finding that the Prioritizer classifies: its check, or the
\* empty text
PrioritizerText(f) == IF "check" \in DOMAIN f THEN f.check ELSE <<>>

\* First match in an ordered table of <<keyword set, category>> rows
MatchingRows(table, text) ==
    {i \in 1..Len(table) : \E kw \in table[i][1] : Contains(text, kw)}

FirstMatch(table, text) ==
    IF MatchingRows(table, text) = {} THEN "generic"
    ELSE table[CHOOSE i \in MatchingRows(table, text) :
                   \A j \in MatchingRows(table, text) : i <= j][2]

ScorerTable ==
    << <<{S_reentrancy}, "reentrancy">>,
       <<{S_unchecked_call, S_low_level_calls}, "unchecked_external_call">>,
       <<{S_timestamp, S_block_timestamp}, "timestamp_dependency">>,
       <<{S_integer, S_overflow, S_underflow}, "integer_overflow">> >>

PrioritizerTable ==
    << <<{S_reentrancy}, "reentrancy">>,
       <<{S_unchecked, S_external_call}, "unchecked_external_call">>,
       <<{S_overflow, S_underflow}, "integer_overflow">>,
       <<{S_timestamp, S_time}, "timestamp_dependency">>,
       <<{S_access, S_owner, S_modifier}, "access_control">>,
       <<{S_solc_version, S_pragma}, "solc_version">> >>

\* While Agent 3 is in its loop, remediations[i] was made from findings[i]
Aligned == pc3 = "loop"

\* ------------------------------------------------------------------------
\* C1: for every finding of a confirmation report written by Agent 2,
\* whichever source produced it, the Scorer and the Prioritizer assign the
\* same category, except that a finding the Prioritizer classifies as
\* access-control or compiler-version may be generic at the Scorer.
\* ------------------------------------------------------------------------
C1_ClassifiersAgree ==
    (pc2 = "done" /\ Aligned) =>
        \A i \in 1..Len(remediations) :
            LET scorer == ScorerCategoryOf(findings[i].exploit_test)
                prioritizer == remediations[i].vulnerability_type
            IN  \/ scorer = prioritizer
                \/ /\ prioritizer \in {"access_control", "solc_version"}
                   /\ scorer = "generic"

\* ------------------------------------------------------------------------
\* C2: the remediations of the remediation report are exactly one record
\* per finding of the input report, ordered by priority descending, records
\* of equal priority in the relative order of their findings.
\* ------------------------------------------------------------------------
RecordsOf(fs) == [i \in 1..Len(fs) |-> Remediation(fs[i])]

WithPriority(rs, v) == LET Has(r) == r.priority = v IN SelectSeq(rs, Has)

C2_StableDescendingSort ==
    pc3 = "done" =>
        LET rs == PrintedRemediationReport.remediations
            us == RecordsOf(findings)
        IN  /\ Len(rs) = Len(findings)
            /\ \A i, j \in 1..Len(rs) : i < j => rs[i].priority >= rs[j].priority
            /\ \A v \in {us[i].priority : i \in 1..Len(us)} :
                   WithPriority(rs, v) = WithPriority(us, v)

\* Two different findings of equal priority and a later finding of higher
\* priority have been sorted: the report's order differs from the input's.
C2_Witness ==
    /\ pc3 = "done"
    /\ LET rs == PrintedRemediationReport.remediations
       IN  /\ rs # RecordsOf(findings)
           /\ \E i \in 1..Len(rs) : \E j \in 1..Len(rs) :
                  /\ i < j
                  /\ rs[i].priority = rs[j].priority
                  /\ rs[i] # rs[j]

\* ------------------------------------------------------------------------
\* C3: the findings of the confirmation report are the upstream list
\* followed by the symbolic-execution list: len(U) + len(M) entries, the
\* first len(U) carrying U's records in order with source agent1, the rest
\* M's records in order with source mythril; nothing dropped or merged.
\* ------------------------------------------------------------------------
ComputedKeys == {"source", "exploit_test", "final_exploitability_score", "confirmed"}

Carries(entry, raw) ==
    \A k \in (DOMAIN raw) \ ComputedKeys : k \in DOMAIN entry /\ entry[k] = raw[k]

C3_CountAndOrder ==
    pc2 = "done" =>
        LET fs == ConfirmationReport.findings
            U == agent1_report
            M == mythril_findings
        IN  /\ Len(fs) = Len(U) + Len(M)
            /\ mythril_run = ExpectedRun => Len(M) = Len(mythril_issues)
            /\ \A i \in 1..Len(U) :
                   fs[i].source = "agent1" /\ Carries(fs[i], U[i])
            /\ \A i \in 1..Len(M) :
                   /\ fs[Len(U) + i].source = "mythril"
                   /\ Carries(fs[Len(U) + i], M[i])
                   /\ mythril_run = ExpectedRun =>
                          fs[Len(U) + i].title =
                             Get(mythril_issues[i], "title", S_Unknown_Mythril_Issue)

\* A report made of a repeated upstream finding and a repeated issue
C3_Witness ==
    /\ pc2 = "done"
    /\ Len(agent1_report) >= 2 /\ agent1_report[1] = agent1_report[2]
    /\ Len(mythril_issues) >= 2 /\ mythril_issues[1] = mythril_issues[2]
    /\ Len(ConfirmationReport.findings) = Len(agent1_report) + Len(mythril_issues)

\* ------------------------------------------------------------------------
\* C4: every score computed by calculate_final_score lies in [0.0, 1.0],
\* whatever the finding's severity and text, missing or unrecognised.
\* ------------------------------------------------------------------------
C4_ScoreInUnitInterval ==
    \A i \in 1..Len(all_findings) :
        /\ all_findings[i].final_exploitability_score >= 0
        /\ all_findings[i].final_exploitability_score <= 1000

\* A finding with no field at all has been scored
C4_Witness ==
    \E i \in 1..Len(all_findings) :
        /\ i <= Len(agent1_findings)
        /\ DOMAIN agent1_findings[i] = {}
        /\ all_findings[i].final_exploitability_score \in 0..1000

\* ------------------------------------------------------------------------
\* C5: in every confirmation report every finding has confirmed = false and
\* confirmed_exploits is 0, also when an upstream record itself carries
\* confirmed = true.
\* ------------------------------------------------------------------------
C5_NeverConfirmed ==
    /\ \A i \in 1..Len(all_findings) :
           "confirmed" \in DOMAIN all_findings[i] /\ all_findings[i].confirmed = FALSE
    /\ pc2 = "done" =>
           /\ ConfirmationReport.confirmed_exploits = 0
           /\ \A i \in 1..Len(ConfirmationReport.findings) :
                  ConfirmationReport.findings[i].confirmed = FALSE

\* A report over an upstream record that carried confirmed = true
C5_Witness ==
    /\ pc2 = "done"
    /\ \E i \in 1..Len(agent1_report) :
           /\ "confirmed" \in DOMAIN agent1_report[i]
           /\ agent1_report[i].confirmed = TRUE
           /\ ConfirmationReport.findings[i].confirmed = FALSE

\* ------------------------------------------------------------------------
\* C6: the score is min(1.0, (0.5 + s + c) / 2): s is 0.3 for severity high
\* or critical (any case), 0.1 for medium, 0 otherwise, a missing severity
\* counting as medium; c is the confidence of the Scorer's category:
\* reentrancy 0.7, unchecked-call 0.6, timestamp 0.5, integer-overflow 0.8,
\* generic 0.3.
\* ------------------------------------------------------------------------
SeverityTerm(f) ==
    LET sev == IF "impact" \in DOMAIN f THEN lower(f.impact)
               ELSE IF "severity" \in DOMAIN f THEN lower(f.severity)
               ELSE S_medium
    IN  IF sev = S_high \/ sev = S_critical THEN 300
        ELSE IF sev = S_medium THEN 100
        ELSE 0

CategoryTerm(category) ==
    CASE category = "reentrancy" -> 700
      [] category = "unchecked_external_call" -> 600
      [] category = "timestamp_dependency" -> 500
      [] category = "integer_overflow" -> 800
      [] category = "generic" -> 300

C6_ScoreFormula ==
    \A i \in 1..Len(all_findings) :
        LET f == all_findings[i]
            twice == 500 + SeverityTerm(f) + CategoryTerm(ScorerCategoryOf(f.exploit_test))
        IN  /\ twice % 2 = 0
            /\ f.final_exploitability_score = Min(1000, twice \div 2)

\* A finding with neither impact nor severity scored as medium: with a
\* reentrancy text its score is (0.5 + 0.1 + 0.7) / 2 = 0.65
C6_Witness ==
    \E i \in 1..Len(all_findings) :
        /\ "impact" \notin DOMAIN all_findings[i]
        /\ "severity" \notin DOMAIN all_findings[i]
        /\ ScorerCategoryOf(all_findings[i].exploit_test) = "reentrancy"
        /\ all_findings[i].final_exploitability_score = 650

\* ------------------------------------------------------------------------
\* C7: the priority is B + C + round(20 * score) + (50 if confirmed), with
\* B = 100/80/60/40 for impact critical/high/medium/low (any case) and 20
\* otherwise, C = 20 for confidence high, 10 for medium, 0 otherwise; the
\* score term is 20 * score rounded, for every score in [0, 1].
\* ------------------------------------------------------------------------
\* round(x) for x = thousandths / 1000, x >= 0: to the nearest integer, a
\* tie to the even one
RoundOfThousandths(thousandths) ==
    LET q == thousandths \div 1000
        r == thousandths % 1000
    IN  IF r > 500 THEN q + 1
        ELSE IF r < 500 THEN q
        ELSE IF q % 2 = 0 THEN q ELSE q + 1

ImpactTerm(impact) ==
    IF impact = None THEN 20
    ELSE IF lower(impact) = S_critical THEN 100
    ELSE IF lower(impact) = S_high THEN 80
    ELSE IF lower(impact) = S_medium THEN 60
    ELSE IF lower(impact) = S_low THEN 40
    ELSE 20

ConfidenceTerm(confidence) ==
    IF confidence = None THEN 0
    ELSE IF lower(confidence) = S_high THEN 20
    ELSE IF lower(confidence) = S_medium THEN 10
    ELSE 0

C7_PriorityRounds ==
    \A i \in 1..Len(remediations) :
        LET o == remediations[i].original_finding
        IN  (o.exploitability_score \in 0..1000) =>
                remediations[i].priority =
                    ImpactTerm(o.impact) + ConfidenceTerm(o.confidence)
                    + RoundOfThousandths(20 * o.exploitability_score)
                    + (IF o.confirmed THEN 50 ELSE 0)

\* ------------------------------------------------------------------------
\* C8: the Scorer classifies the lower-cased check (or title when there is
\* no check) by first match, in the order reentrancy; unchecked-call or
\* low-level-calls; timestamp or block-timestamp; integer, overflow or
\* underflow; otherwise generic.  Every text, the empty one included, gets
\* exactly one category.
\* ------------------------------------------------------------------------
C8_ScorerFirstMatch ==
    \A i \in 1..Len(all_findings) :
        ScorerCategoryOf(all_findings[i].exploit_test) =
            FirstMatch(ScorerTable, lower(ScorerText(all_findings[i])))

\* A title (no check) in mixed case that holds both a timestamp keyword and
\* an integer keyword is a timestamp dependency
C8_Witness ==
    \E i \in 1..Len(all_findings) :
        LET f == all_findings[i]
        IN  /\ "check" \notin DOMAIN f
            /\ f.title # lower(f.title)
            /\ Contains(lower(f.title), S_timestamp)
            /\ Contains(lower(f.title), S_integer)
            /\ ScorerCategoryOf(f.exploit_test) = "timestamp_dependency"

\* ------------------------------------------------------------------------
\* C9: the Prioritizer classifies the lower-cased check by first match, in
\* the order reentrancy; unchecked or external-call; overflow or underflow;
\* timestamp or time; access, owner or modifier; solc-version or pragma;
\* otherwise generic.
\* ------------------------------------------------------------------------
C9_PrioritizerFirstMatch ==
    Aligned =>
        \A i \in 1..Len(remediations) :
            remediations[i].vulnerability_type =
                FirstMatch(PrioritizerTable, lower(PrioritizerText(findings[i])))

\* A check holding both 'overflow' and 'timestamp' is an integer overflow
C9_Witness ==
    /\ Aligned
    /\ \E i \in 1..Len(remediations) :
           /\ "check" \in DOMAIN findings[i]
           /\ Contains(findings[i].check, S_timestamp)
           /\ Contains(findings[i].check, S_overflow)
           /\ remediations[i].vulnerability_type = "integer_overflow"

\* ------------------------------------------------------------------------
\* C10: a record's severity label is fixed by its category (reentrancy
\* Critical, unchecked-call High, integer-overflow High, timestamp Medium,
\* access-control Critical, compiler-version Low); a generic record has the
\* finding's own reported severity, Medium when the finding reports none.
\* ------------------------------------------------------------------------
\* The severity the producing tool reported: impact in an upstream record,
\* severity in a symbolic-execution record
ReportedSeverity(f) ==
    IF "impact" \in DOMAIN f THEN f.impact
    ELSE IF "severity" \in DOMAIN f THEN f.severity
    ELSE S_Medium

CategorySeverity(category) ==
    CASE category = "reentrancy" -> S_Critical
      [] category = "unchecked_external_call" -> S_High
      [] category = "integer_overflow" -> S_High
      [] category = "timestamp_dependency" -> S_Medium
      [] category = "access_control" -> S_Critical
      [] category = "solc_version" -> S_Low

C10_SeverityLabel ==
    Aligned =>
        \A i \in 1..Len(remediations) :
            LET r == remediations[i]
            IN  IF r.vulnerability_type = "generic"
                THEN r.severity = ReportedSeverity(findings[i])
                ELSE r.severity = CategorySeverity(r.vulnerability_type)

\* ------------------------------------------------------------------------
\* C11: when the symbolic-execution tool fails (non-zero return code), times
\* out, cannot be started, prints nothing, or prints anything that is not
\* the expected JSON, Agent 2 does not abort: it ends with status 0 and
\* prints a ConfirmationReport holding every upstream finding, with no
\* symbolic-execution finding unless the text fall-back recovered some.
\* ------------------------------------------------------------------------
\* The run is not the one the tool makes when it works
ToolFault(run) ==
    \/ run.outcome # "exited"
    \/ run.returncode # 0
    \/ run.stdout.shape # "issues"

\* The files are there and every upstream record is one the loop can process
UpstreamUsable ==
    /\ agent1_report_path = "ok"
    /\ contract_path = "ok"
    /\ \A i \in 1..Len(agent1_report) : ~EnhancedFindingRaises(agent1_report[i])

C11_ToolFaultTolerated ==
    (pc2 \in {"done", "failed"} /\ UpstreamUsable /\ ToolFault(mythril_run)) =>
        /\ exit2 = 0
        /\ Len(stdout2) = 1
        /\ ConfirmationReport.agent1_findings_count = Len(agent1_report)
        /\ \A i \in 1..Len(agent1_report) :
               /\ ConfirmationReport.findings[i].source = "agent1"
               /\ Carries(ConfirmationReport.findings[i], agent1_report[i])
        /\ mythril_run.stdout.shape # "not_json" =>
               /\ ConfirmationReport.mythril_findings_count = 0
               /\ ConfirmationReport.total_findings = Len(agent1_report)

\* ------------------------------------------------------------------------
\* C12: when the upstream report is not valid JSON, Agent 2 ends with a
\* non-zero status and at no point of the run has anything been printed to
\* standard output, neither the ConfirmationReport nor a part of it.
\* ------------------------------------------------------------------------
C12_MalformedUpstreamIsFatal ==
    agent1_report_path = "malformed" =>
        /\ stdout2 = <<>>
        /\ pc2 \in {"start", "failed"}
        /\ pc2 = "failed" => exit2 > 0

\* The run with the malformed report has ended
C12_Witness ==
    /\ agent1_report_path = "malformed"
    /\ pc2 = "failed"
    /\ exit2 = 1

\* ------------------------------------------------------------------------
\* C13: in each of the two stages a run that succeeds exits with status 0
\* after printing its report, and a run that fails (input file missing,
\* input not JSON, any other exception) exits with a non-zero status and
\* prints an error object in place of the report.
\* ------------------------------------------------------------------------
IsErrorObject(o) == "error" \in DOMAIN o /\ o.error = TRUE

C13_ExitContract ==
    /\ pc2 = "done" =>
          /\ exit2 = 0
          /\ Len(stdout2) = 1
          /\ ~IsErrorObject(stdout2[1])
    /\ pc2 = "failed" =>
          /\ exit2 > 0
          /\ Len(stdout2) = 1
          /\ IsErrorObject(stdout2[1])
    /\ pc3 = "done" =>
          /\ exit3 = 0
          /\ Len(stdout3) = 1
          /\ ~IsErrorObject(stdout3[1])
    /\ pc3 = "failed" =>
          /\ exit3 > 0
          /\ Len(stdout3) = 1
          /\ IsErrorObject(stdout3[1])

\* ------------------------------------------------------------------------
\* C14: in the ConfirmationReport total_findings is the length of findings
\* and the sum of agent1_findings_count and mythril_findings_count;
\* confirmed_exploits counts the findings with confirmed true,
\* high_confidence_findings those with a score above 0.7, and the summary
\* those with a score above 0.8, in (0.5, 0.8], and at most 0.5.
\* ------------------------------------------------------------------------
C14_ReportCounts ==
    pc2 = "done" =>
        LET r == ConfirmationReport
            fs == r.findings
            Confirmed(f) == f.confirmed = TRUE
            Above700(f) == f.final_exploitability_score > 700
            Above800(f) == f.final_exploitability_score > 800
            Between(f) == /\ f.final_exploitability_score > 500
                          /\ f.final_exploitability_score <= 800
            AtMost500(f) == f.final_exploitability_score <= 500
        IN  /\ r.total_findings = Len(fs)
            /\ r.total_findings = r.agent1_findings_count + r.mythril_findings_count
            /\ r.agent1_findings_count = Len(agent1_report)
            /\ r.mythril_findings_count = Len(mythril_findings)
            /\ r.confirmed_exploits = Len(SelectSeq(fs, Confirmed))
            /\ r.high_confidence_findings = Len(SelectSeq(fs, Above700))
            /\ r.summary.critical_vulnerabilities = Len(SelectSeq(fs, Above800))
            /\ r.summary.medium_vulnerabilities = Len(SelectSeq(fs, Between))
            /\ r.summary.low_vulnerabilities = Len(SelectSeq(fs, AtMost500))

\* A report of both sources with a finding above 0.7 and one that is not
C14_Witness ==
    /\ pc2 = "done"
    /\ ConfirmationReport.agent1_findings_count >= 2
    /\ ConfirmationReport.mythril_findings_count >= 1
    /\ ConfirmationReport.high_confidence_findings >= 1
    /\ ConfirmationReport.high_confidence_findings < ConfirmationReport.total_findings
    /\ ConfirmationReport.summary.medium_vulnerabilities
          = ConfirmationReport.total_findings

\* ------------------------------------------------------------------------
\* C15: with an empty upstream list and no finding from symbolic execution
\* Agent 2 succeeds and prints a ConfirmationReport whose findings list is
\* empty and whose counts, the three summary buckets included, are all 0.
\* ------------------------------------------------------------------------
\* The tool printed an empty list of issues, or nothing, or did not run to
\* a return code of 0
NothingFromTool ==
    \/ mythril_run = ExpectedRun /\ mythril_issues = <<>>
    \/ mythril_run.outcome # "exited"
    \/ mythril_run.returncode # 0
    \/ mythril_run.stdout = NoOutput

EmptyInputs ==
    /\ pc2 # "off"
    /\ agent1_report_path = "ok"
    /\ contract_path = "ok"
    /\ agent1_report = <<>>
    /\ NothingFromTool

C15_EmptyInputsEmptyReport ==
    EmptyInputs =>
        /\ pc2 # "failed"
        /\ pc2 = "done" =>
              /\ exit2 = 0
              /\ Len(stdout2) = 1
              /\ ConfirmationReport.findings = <<>>
              /\ ConfirmationReport.agent1_findings_count = 0
              /\ ConfirmationReport.mythril_findings_count = 0
              /\ ConfirmationReport.total_findings = 0
              /\ ConfirmationReport.confirmed_exploits = 0
              /\ ConfirmationReport.high_confidence_findings = 0
              /\ ConfirmationReport.summary.critical_vulnerabilities = 0
              /\ ConfirmationReport.summary.medium_vulnerabilities = 0
              /\ ConfirmationReport.summary.low_vulnerabilities = 0

\* The run on the empty list and a tool that printed {"issues": []} is over
C15_Witness ==
    /\ EmptyInputs
    /\ mythril_run = ExpectedRun
    /\ pc2 = "done"
    /\ exit2 = 0

\* ------------------------------------------------------------------------
\* C16: parse_mythril_text_output returns, for every text, one finding per
\* line that begins with the section marker '==== ' (lines are looked at as
\* the parser does, with surrounding white space removed), in the order of
\* the lines.  A finding's severity and SWC id are those of the 'Severity:'
\* and 'SWC ID:' lines between its section line and the next one; every
\* other line of that stretch that is not empty and not a '----' rule is
\* appended to its description; lines before the first section line are in
\* no finding, and a text without a section line gives the empty list.
\* ------------------------------------------------------------------------
\* The text the tool printed that went to the fall-back, as stripped lines
FallbackLines ==
    LET lines == split(mythril_run.stdout.text, "\n")
    IN  [i \in 1..Len(lines) |-> strip(lines[i])]

IsSectionLine(line) == startswith(line, S_section_start)
IsSwcLine(line) == ~IsSectionLine(line) /\ startswith(line, S_SWC_ID)
IsSeverityLine(line) ==
    ~IsSectionLine(line) /\ ~IsSwcLine(line) /\ startswith(line, S_Severity)
IsProseLine(line) ==
    /\ ~IsSectionLine(line) /\ ~IsSwcLine(line) /\ ~IsSeverityLine(line)
    /\ line # <<>>
    /\ ~startswith(line, S_rule)

\* The positions of the section lines, ascending
RECURSIVE SectionPositions(_, _)
SectionPositions(lines, from) ==
    IF from > Len(lines) THEN <<>>
    ELSE IF IsSectionLine(lines[from])
         THEN <<from>> \o SectionPositions(lines, from + 1)
         ELSE SectionPositions(lines, from + 1)

\* The lines after position a and before position b, each followed by a
\* space, those that are prose only
RECURSIVE ProseBetween(_, _, _)
ProseBetween(lines, a, b) ==
    IF a + 1 >= b THEN <<>>
    ELSE (IF IsProseLine(lines[a + 1]) THEN lines[a + 1] \o <<" ">> ELSE <<>>)
         \o ProseBetween(lines, a + 1, b)

\* The fall-back ran: return code 0 and a non-empty output that is not JSON
FallbackRan ==
    /\ pc2 \in {"process", "done"}
    /\ mythril_run.outcome = "exited"
    /\ mythril_run.returncode = 0
    /\ mythril_run.stdout.shape = "not_json"
    /\ mythril_run.stdout.text # <<>>

C16_TextFallback ==
    FallbackRan =>
        LET lines == FallbackLines
            at == SectionPositions(lines, 1)
            end(k) == IF k < Len(at) THEN at[k + 1] ELSE Len(lines) + 1
            within(k) == {i \in 1..Len(lines) : at[k] < i /\ i < end(k)}
        IN  /\ Len(mythril_findings) = Len(at)
            /\ \A k \in 1..Len(at) :
                  LET f == mythril_findings[k]
                      sev == {i \in within(k) : IsSeverityLine(lines[i])}
                      swc == {i \in within(k) : IsSwcLine(lines[i])}
                  IN  /\ f.title = strip(remove(lines[at[k]], S_section))
                      /\ IF sev = {} THEN f.severity = S_Medium
                         ELSE \E i \in sev :
                                 /\ \A j \in sev : j <= i
                                 /\ f.severity = strip(remove(lines[i], S_Severity))
                      /\ IF swc = {} THEN "swc_id" \notin DOMAIN f
                         ELSE \E i \in swc :
                                 /\ \A j \in swc : j <= i
                                 /\ f.swc_id = strip(remove(lines[i], S_SWC_ID))
                      /\ f.description = ProseBetween(lines, at[k], end(k))

\* A text of a section line, its severity line, and a second, indented
\* section line that the text ends with
C16_Witness ==
    /\ FallbackRan
    /\ Len(mythril_findings) = 2
    /\ mythril_findings[1].severity = S_High
    /\ mythril_findings[2].title = S_Reentrancy

\* ------------------------------------------------------------------------
\* C17: no stage's result depends on the schema a finding came in.  Two
\* findings with the same text, the same severity and the same confidence,
\* one in the upstream shape (check, impact) and one in the shape of the
\* symbolic-execution tool (title, severity), get the same category and
\* score from the Scorer, and the same category, severity label and
\* priority from the Prioritizer.
\* ------------------------------------------------------------------------
\* f is in the upstream shape, g in the tool's shape, and they say the same
SameFindingTwoSchemas(f, g) ==
    /\ "check" \in DOMAIN f /\ "impact" \in DOMAIN f
    /\ "title" \notin DOMAIN f /\ "severity" \notin DOMAIN f
    /\ "title" \in DOMAIN g /\ "severity" \in DOMAIN g
    /\ "check" \notin DOMAIN g /\ "impact" \notin DOMAIN g
    /\ f.check = g.title
    /\ f.impact = g.severity
    /\ Get(f, "confidence", None) = Get(g, "confidence", None)

\* Every finding of the report has its record, none is sorted yet
AllRemediated == Aligned /\ Len(remediations) = Len(findings)

C17_SchemaIndependent ==
    AllRemediated =>
        \A i, j \in 1..Len(findings) :
            SameFindingTwoSchemas(findings[i], findings[j]) =>
                /\ "exploit_test" \in DOMAIN findings[i]
                      /\ "exploit_test" \in DOMAIN findings[j] =>
                      /\ findings[i].exploit_test = findings[j].exploit_test
                      /\ findings[i].final_exploitability_score
                            = findings[j].final_exploitability_score
                /\ remediations[i].vulnerability_type
                      = remediations[j].vulnerability_type
                /\ remediations[i].severity = remediations[j].severity
                /\ remediations[i].priority = remediations[j].priority

\* ------------------------------------------------------------------------
\* C18: the three summary buckets of the ConfirmationReport partition its
\* findings (their sum is total_findings), and
\* critical_vulnerabilities <= high_confidence_findings <= total_findings.
\* ------------------------------------------------------------------------
C18_BucketsPartition ==
    pc2 = "done" =>
        LET r == ConfirmationReport
        IN  /\ r.summary.critical_vulnerabilities
                  + r.summary.medium_vulnerabilities
                  + r.summary.low_vulnerabilities = r.total_findings
            /\ r.summary.critical_vulnerabilities <= r.high_confidence_findings
            /\ r.high_confidence_findings <= r.total_findings

\* A report with a score of exactly 0.8, one in (0.5, 0.7] and one more
C18_Witness ==
    /\ pc2 = "done"
    /\ ConfirmationReport.total_findings >= 3
    /\ \E i \in 1..Len(ConfirmationReport.findings) :
           ConfirmationReport.findings[i].final_exploitability_score = 800
    /\ \E i \in 1..Len(ConfirmationReport.findings) :
           ConfirmationReport.findings[i].final_exploitability_score = 550

\* ------------------------------------------------------------------------
\* C19: every score the Scorer computes lies in [0.4, 0.8], so the cap at
\* 1.0 never changes a score and critical_vulnerabilities is 0 in every
\* ConfirmationReport.
\* ------------------------------------------------------------------------
C19_ScoreRange ==
    /\ \A i \in 1..Len(all_findings) :
          LET f == all_findings[i]
              averaged == (500 + SeverityTerm(f)
                           + CategoryTerm(ScorerCategoryOf(f.exploit_test))) \div 2
          IN  /\ f.final_exploitability_score >= 400
              /\ f.final_exploitability_score <= 800
              /\ f.final_exploitability_score = averaged
    /\ pc2 = "done" => ConfirmationReport.summary.critical_vulnerabilities = 0

\* A report with the largest score, 0.8, and none critical
C19_Witness ==
    /\ pc2 = "done"
    /\ ConfirmationReport.summary.critical_vulnerabilities = 0
    /\ \E i \in 1..Len(all_findings) :
           /\ all_findings[i].final_exploitability_score = 800
           /\ ScorerCategoryOf(all_findings[i].exploit_test) = "integer_overflow"

\* ------------------------------------------------------------------------
\* C20: in the RemediationReport critical + high + medium + low
\* remediations is at most total_remediations, with equality exactly when
\* the severity of every generic record is one of the strings 'Critical',
\* 'High', 'Medium', 'Low'; a generic record with another string ('high',
\* 'Informational') is in none of the four counts.
\* ------------------------------------------------------------------------
SeverityLabels == {S_Critical, S_High, S_Medium, S_Low}

C20_SeverityCounts ==
    pc3 = "done" =>
        LET r == PrintedRemediationReport
            rs == r.remediations
            counted == r.remediation_summary.critical_remediations
                       + r.remediation_summary.high_remediations
                       + r.remediation_summary.medium_remediations
                       + r.remediation_summary.low_remediations
            Unlabelled(x) == x.vulnerability_type = "generic"
                             /\ x.severity \notin SeverityLabels
        IN  /\ counted <= r.total_remediations
            /\ counted = r.total_remediations <=>
                  \A i \in 1..Len(rs) :
                      rs[i].vulnerability_type = "generic" =>
                          rs[i].severity \in SeverityLabels
            /\ counted = r.total_remediations - Len(SelectSeq(rs, Unlabelled))

\* A report with a generic record whose severity is 'low' and a counted one
C20_Witness ==
    /\ pc3 = "done"
    /\ PrintedRemediationReport.total_remediations = 2
    /\ \E i \in 1..Len(PrintedRemediationReport.remediations) :
           /\ PrintedRemediationReport.remediations[i].vulnerability_type = "generic"
           /\ PrintedRemediationReport.remediations[i].severity = S_low
    /\ PrintedRemediationReport.remediation_summary.critical_remediations = 1

====
